---- MODULE Spec2Model ----
(***************************************************************************)
(* Real-time voice modulator.                                              *)
(*                                                                         *)
(* Two programs of the repository are modelled:                            *)
(*  - the lightweight path: IOAudioLayer (src/src/IOAudioLayer.py), the    *)
(*    bridge between the sounddevice callback thread and the processing    *)
(*    loop of src/src/main.py, which feeds ResearchLayer;                  *)
(*  - the backend: AudioProcessor (src/backend/audio_processor.py) driven  *)
(*    by the FastAPI handlers of src/backend/main.py.                      *)
(* SpecIO runs the first; SpecConfig, SpecProfile, SpecCallback and        *)
(* SpecApply run the second.  Two more parts are modelled on their own:    *)
(*  - the ring modulator of src/src/processment.py (SpecOsc);              *)
(*  - the profile store of src/backend/voice_profiles.py (SpecStore).      *)
(***************************************************************************)
EXTENDS Integers, Sequences, FiniteSets, TLC

VARIABLES
    \* ---- IOAudioLayer (self.*) ----
    input_queue,      \* queue.Queue(maxsize=10): hardware -> processing
    output_queue,     \* queue.Queue(maxsize=10): processing -> hardware
    io_stream,        \* IOAudioLayer.stream: None, or the index of the sd.Stream in io_hw
    running,          \* IOAudioLayer.running
    \* ---- sounddevice / PortAudio side of IOAudioLayer ----
    io_hw,            \* state of every sd.Stream the layer ever constructed
    cb_pc,            \* position of the hardware callback thread in _callback
    indata,           \* the block captured by the callback in progress
    outdata,          \* the block last written to outdata[:]
    captured,         \* number of blocks the driver has captured so far
    cb_event,         \* what the last queue operation of _callback did
    \* ---- main() of src/src/main.py ----
    pc,               \* position of the processing loop
    in_block,         \* local in_block
    out_block,        \* local out_block
    interrupted_at,   \* position at which KeyboardInterrupt was delivered
    \* ---- ResearchLayer ----
    buffer_len,       \* len(self.buffer)
    prev_tail,        \* the block whose synthesis self.prev_tail comes from
    \* ---- what has crossed the interface of IOAudioLayer so far ----
    got,              \* the blocks get_input_block has returned, in order
    sent,             \* the blocks passed to send_output_block, in order
    emitted,          \* the blocks _callback took from output_queue, in order
    started_at        \* how many blocks were captured and sent before the last start()

VARIABLES
    \* ---- AudioProcessor (self.*) ----
    config,             \* AudioProcessor.config
    sample_rate,        \* AudioProcessor.sample_rate
    profile,            \* AudioProcessor.profile
    processing_enabled, \* AudioProcessor.processing_enabled
    ap_stream,          \* AudioProcessor.stream: None, or the sd.Stream object
    \* ---- sounddevice / PortAudio side of AudioProcessor ----
    ap_hw,              \* state of every sd.Stream the processor ever constructed
    acb_pc,             \* position of the callback thread in _audio_callback
    acb_enabled,        \* what the callback in progress read from processing_enabled
    acb_used,           \* per stage, the profile whose parameter the block in progress got
    acb_done,           \* acb_used of the last block the callback emitted
    \* ---- the request being handled on the event loop (src/backend/main.py) ----
    h_pc,               \* position of the handler
    h_config,           \* its argument config
    h_entry,            \* config, stream and stream state when the handler was entered
    h_log,              \* the calls it has made on sd.Stream objects, in order
    h_result            \* "ok" once it returns normally, "error" once it raises

VARIABLES
    \* ---- src/src/processment.py ----
    base_phase,         \* the module global base_phase
    osc_wave,           \* per caller of process_chunk, the carrier blocks it was given
    osc_all,            \* every carrier block generated, in call order
    \* ---- one run of AudioProcessor._audio_callback on sample data ----
    dsp_pc,             \* position inside _audio_callback / _process_audio
    audio_input,        \* audio_input, the mono input block
    audio,              \* the local audio of _process_audio
    audio_output,       \* what the callback wrote to outdata
    dsp_fault,          \* an exception has been raised inside the try block
    dsp_applied,        \* the stages that have changed the block in progress, in order
    \* ---- POST /profile/apply and the WebSocket message profile_update ----
    req_last,           \* the last profile request and how it ended
    \* ---- ProfileManager ----
    files,              \* the .json files below profiles_dir
    st_last,            \* the last call on the store and what it returned
    \* ---- a ResearchLayer object and its last call, on sample data ----
    rl,                 \* frame_length, hop_length, overlap, buffer, prev_tail
    rl_call,            \* the last call of analyze_and_synthesize: argument, locals, result
    rl_frames           \* current_block of every call that analysed a frame, in order

osc_vars == <<base_phase, osc_wave, osc_all>>

dsp_vars == <<dsp_pc, audio_input, audio, audio_output, dsp_fault, dsp_applied>>

store_vars == <<files, st_last>>

rl_vars == <<rl, rl_call, rl_frames>>

ext_vars == <<osc_vars, dsp_vars, req_last, store_vars, rl_vars>>

ap_vars == <<config, sample_rate, profile, processing_enabled, ap_stream, ap_hw,
             acb_pc, acb_enabled, acb_used, acb_done, h_pc, h_config, h_entry, h_log,
             h_result>>

io_vars == <<input_queue, output_queue, io_stream, running, io_hw, cb_pc, indata,
             outdata, captured, cb_event, pc, in_block, out_block, interrupted_at,
             buffer_len, prev_tail, got, sent, emitted, started_at>>

\* Python's None, for a block, for a stream reference, for a position
NoBlock == [kind |-> "None", id |-> 0, frames |-> 0]
NoStream == 0
None == "None"

-----------------------------------------------------------------------------
(* Program constants.                                                      *)

\* queue.Queue(maxsize=10), both queues
maxsize == 10

\* IOAudioLayer(samplerate=48000, blocksize=3572) in main()
samplerate == 48000
blocksize == 3572

\* ResearchLayer(samplerate=48000, frame_length_ms=80), overlap=0.5 in percent
frame_length_ms == 80
overlap_percent == 50

\* ResearchLayer.__init__: int((frame_length_ms / 1000) * samplerate)
frame_length == (frame_length_ms * samplerate) \div 1000

\* ResearchLayer.__init__: int(frame_length * (1 - overlap))
hop_length == (frame_length * (100 - overlap_percent)) \div 100

(* Bounds of the model.                                                    *)

\* blocks the driver captures before the model stops the driver
MaxCapture == 12

\* streams an object opens before the model lets it open no more
MaxOpens == 3

\* blocks a client of IOAudioLayer gets before the model lets it get no more
MaxGot == 3

-----------------------------------------------------------------------------
(* Blocks.  A captured block is identified by its capture number; the      *)
(* block ResearchLayer returns for it carries the same number.             *)

CaptureBlock(n) == [kind |-> "capture", id |-> n, frames |-> blocksize]

\* a silence block that ignores the shape of indata
zeros_empty(b) == [kind |-> "zeros", id |-> 0, frames |-> 0]

\* np.zeros_like(indata)
zeros_like(b) == [kind |-> "zeros", id |-> 0, frames |-> b.frames]

\* queue.Queue.full()
Full(q) == Len(q) >= maxsize

\* a put that makes room by dropping the oldest pending block
put_drop_oldest(q, b) == IF Full(q) THEN Append(Tail(q), b) ELSE Append(q, b)

\* a put that overwrites the most recently queued block
put_replace_last(q, b) ==
    IF Full(q) THEN Append(SubSeq(q, 1, Len(q) - 1), b) ELSE Append(q, b)

\* queue.Queue.put_nowait: the queue after the call; raises queue.Full
\* (queue unchanged) when there is no free slot
put_nowait(q, b) == IF Full(q) THEN q ELSE Append(q, b)

-----------------------------------------------------------------------------
(* IOAudioLayer.__init__, ResearchLayer.__init__ and the entry of main().  *)

InitIO ==
    /\ input_queue = <<>>
    /\ output_queue = <<>>
    /\ io_stream = NoStream
    /\ running = FALSE
    /\ io_hw = <<>>
    /\ cb_pc = "idle"
    /\ indata = NoBlock
    /\ outdata = NoBlock
    /\ captured = 0
    /\ cb_event = "none"
    /\ pc = "start"
    /\ in_block = NoBlock
    /\ out_block = NoBlock
    /\ interrupted_at = None
    /\ buffer_len = 0
    /\ prev_tail = 0
    /\ got = <<>>
    /\ sent = <<>>
    /\ emitted = <<>>
    /\ started_at = [captured |-> 0, sent |-> 0]

-----------------------------------------------------------------------------
(* The hardware callback, IOAudioLayer._callback; PortAudio invokes it     *)
(* only on a started stream, one invocation at a time.                     *)

IOActive == \E i \in 1..Len(io_hw) : io_hw[i] = "active"

\* lines 24-27: try: input_queue.put_nowait(np.copy(indata)) except queue.Full: pass
CallbackPut ==
    /\ IOActive
    /\ cb_pc = "idle"
    /\ captured < MaxCapture
    /\ captured' = captured + 1
    /\ indata' = CaptureBlock(captured + 1)
    /\ input_queue' = put_nowait(input_queue, CaptureBlock(captured + 1))
    /\ cb_event' = IF Full(input_queue) THEN "input_full" ELSE "input_put"
    /\ cb_pc' = "output"
    /\ UNCHANGED <<ap_vars, ext_vars, got, sent, emitted, started_at,
                   output_queue, io_stream, running, io_hw, outdata, pc, in_block,
                   out_block, interrupted_at, buffer_len, prev_tail>>

\* lines 29-32: try: outdata[:] = output_queue.get_nowait()
\*              except queue.Empty: outdata[:] = np.zeros_like(indata)
CallbackGet ==
    /\ cb_pc = "output"
    /\ IF output_queue = <<>>
         THEN /\ outdata' = zeros_like(indata)
              /\ cb_event' = "output_empty"
              /\ UNCHANGED output_queue
         ELSE /\ outdata' = Head(output_queue)
              /\ output_queue' = Tail(output_queue)
              /\ cb_event' = "output_get"
    /\ emitted' = IF output_queue = <<>> THEN emitted ELSE Append(emitted, Head(output_queue))
    /\ cb_pc' = "idle"
    /\ UNCHANGED <<ap_vars, ext_vars, got, sent, started_at,
                   input_queue, io_stream, running, io_hw, indata, captured, pc,
                   in_block, out_block, interrupted_at, buffer_len, prev_tail>>

-----------------------------------------------------------------------------
(* IOAudioLayer.start and IOAudioLayer.stop.                               *)

\* lines 34-44: running = True; stream = sd.Stream(...); stream.start()
IOAudioLayer_start ==
    /\ running' = TRUE
    /\ io_hw' = Append(io_hw, "active")
    /\ io_stream' = Len(io_hw) + 1

\* lines 46-51: running = False; if stream: stream.stop(); stream.close(); stream = None
\* stream.stop() returns once the callback in progress has returned
IOAudioLayer_stop ==
    /\ running' = FALSE
    /\ IF io_stream # NoStream
         THEN /\ cb_pc = "idle"
              /\ io_hw' = [io_hw EXCEPT ![io_stream] = "closed"]
              /\ io_stream' = NoStream
         ELSE UNCHANGED <<io_hw, io_stream>>

-----------------------------------------------------------------------------
(* ResearchLayer.analyze_and_synthesize, on the sample counts.             *)

\* line 20: len(buffer) after np.concatenate((buffer, frame.flatten()))
Accumulated(len, b) == len + b.frames

\* lines 23-28: the buffer after the call
BufferAfter(len, b) ==
    IF Accumulated(len, b) < frame_length
      THEN Accumulated(len, b)
      ELSE Accumulated(len, b) - hop_length

\* lines 23-24 and 57-58: the returned block
Synthesized(len, b) ==
    IF Accumulated(len, b) < frame_length
      THEN [kind |-> "blend", id |-> b.id, frames |-> b.frames]
      ELSE [kind |-> "synth", id |-> b.id, frames |-> b.frames]

-----------------------------------------------------------------------------
(* main() of src/src/main.py.                                              *)

\* line 11: audio_layer.start()
MainStart ==
    /\ pc = "start"
    /\ IOAudioLayer_start
    /\ started_at' = [captured |-> captured, sent |-> Len(sent)]
    /\ pc' = "get"
    /\ UNCHANGED <<ap_vars, ext_vars, got, sent, emitted,
                   input_queue, output_queue, cb_pc, indata, outdata, captured,
                   cb_event, in_block, out_block, interrupted_at, buffer_len, prev_tail>>

\* a get that returns the oldest block and leaves it in the queue
GetInputBlockPeek ==
    /\ input_queue # <<>>
    /\ in_block' = Head(input_queue)
    /\ UNCHANGED input_queue

\* IOAudioLayer.get_input_block, lines 53-57, a block is there within 0.5 s
\* main line 15: in_block = audio_layer.get_input_block()
GetInputBlockOk ==
    /\ input_queue # <<>>
    /\ in_block' = Head(input_queue)
    /\ input_queue' = Tail(input_queue)

\* a get without timeout: it returns only when a block is there
GetInputBlockForever == FALSE

\* IOAudioLayer.get_input_block, lines 53-57, queue.Empty after the timeout
GetInputBlockTimeout ==
    /\ input_queue = <<>>
    /\ in_block' = NoBlock
    /\ UNCHANGED input_queue

MainGet ==
    /\ pc = "get"
    /\ (GetInputBlockOk \/ GetInputBlockTimeout)
    /\ got' = IF in_block' = NoBlock THEN got ELSE Append(got, in_block')
    /\ pc' = "check"
    /\ UNCHANGED <<ap_vars, ext_vars, sent, emitted, started_at,
                   output_queue, io_stream, running, io_hw, cb_pc, indata, outdata,
                   captured, cb_event, out_block, interrupted_at, buffer_len, prev_tail>>

\* lines 16-17: if in_block is None: continue
MainCheck ==
    /\ pc = "check"
    /\ pc' = IF in_block = NoBlock THEN "get" ELSE "analyze"
    /\ UNCHANGED <<ap_vars, ext_vars, got, sent, emitted, started_at,
                   input_queue, output_queue, io_stream, running, io_hw, cb_pc, indata,
                   outdata, captured, cb_event, in_block, out_block, interrupted_at,
                   buffer_len, prev_tail>>

\* line 19: out_block = research_layer.analyze_and_synthesize(in_block)
MainAnalyze ==
    /\ pc = "analyze"
    /\ out_block' = Synthesized(buffer_len, in_block)
    /\ buffer_len' = BufferAfter(buffer_len, in_block)
    /\ prev_tail' = IF Accumulated(buffer_len, in_block) < frame_length
                      THEN prev_tail ELSE in_block.id
    /\ pc' = "send"
    /\ UNCHANGED <<ap_vars, ext_vars, got, sent, emitted, started_at,
                   input_queue, output_queue, io_stream, running, io_hw, cb_pc, indata,
                   outdata, captured, cb_event, in_block, interrupted_at>>

\* line 21: audio_layer.send_output_block(out_block)
\* IOAudioLayer.send_output_block, lines 59-63
MainSend ==
    /\ pc = "send"
    /\ output_queue' = put_nowait(output_queue, out_block)
    /\ sent' = Append(sent, out_block)
    /\ pc' = "get"
    /\ UNCHANGED <<ap_vars, ext_vars, got, emitted, started_at,
                   input_queue, io_stream, running, io_hw, cb_pc, indata, outdata,
                   captured, cb_event, in_block, out_block, interrupted_at, buffer_len,
                   prev_tail>>

\* lines 23-24: except KeyboardInterrupt; Ctrl+C is delivered to the main
\* thread wherever it is inside the try block
InLoop == pc \in {"get", "check", "analyze", "send"}

KeyboardInterrupt ==
    /\ InLoop
    /\ interrupted_at' = pc
    /\ pc' = "finally"
    /\ UNCHANGED <<ap_vars, ext_vars, got, sent, emitted, started_at,
                   input_queue, output_queue, io_stream, running, io_hw, cb_pc, indata,
                   outdata, captured, cb_event, in_block, out_block, buffer_len,
                   prev_tail>>

\* lines 26-28: finally: audio_layer.stop()
MainFinally ==
    /\ pc = "finally"
    /\ IOAudioLayer_stop
    /\ pc' = "done"
    /\ UNCHANGED <<ap_vars, ext_vars, got, sent, emitted, started_at,
                   input_queue, output_queue, cb_pc, indata, outdata, captured,
                   cb_event, in_block, out_block, interrupted_at, buffer_len, prev_tail>>

-----------------------------------------------------------------------------
(* A client of IOAudioLayer that calls start, stop, get_input_block and    *)
(* send_output_block in any order.                                         *)

\* audio_layer.start(), IOAudioLayer.start lines 34-44
LayerStart ==
    /\ Len(io_hw) < MaxOpens
    /\ IOAudioLayer_start
    /\ started_at' = [captured |-> captured, sent |-> Len(sent)]
    /\ UNCHANGED <<ap_vars, ext_vars, input_queue, output_queue, cb_pc, indata, outdata,
                   captured, cb_event, pc, in_block, out_block, interrupted_at,
                   buffer_len, prev_tail, got, sent, emitted>>

\* audio_layer.stop(), IOAudioLayer.stop lines 46-51
LayerStop ==
    /\ IOAudioLayer_stop
    /\ UNCHANGED <<ap_vars, ext_vars, input_queue, output_queue, cb_pc, indata, outdata,
                   captured, cb_event, pc, in_block, out_block, interrupted_at,
                   buffer_len, prev_tail, got, sent, emitted, started_at>>

\* in_block = audio_layer.get_input_block(), lines 53-57
LayerGet ==
    /\ Len(got) < MaxGot
    /\ (GetInputBlockOk \/ GetInputBlockTimeout)
    /\ got' = IF in_block' = NoBlock THEN got ELSE Append(got, in_block')
    /\ UNCHANGED <<ap_vars, ext_vars, output_queue, io_stream, running, io_hw, cb_pc,
                   indata, outdata, captured, cb_event, pc, out_block, interrupted_at,
                   buffer_len, prev_tail, sent, emitted, started_at>>

\* the block the client makes of the n-th block it got
Processed(n) == [kind |-> "synth", id |-> n, frames |-> got[n].frames]

\* audio_layer.send_output_block(out_block), lines 59-63: the client sends
\* one block for every block it got, in the same order
LayerSend ==
    /\ Len(sent) < Len(got)
    /\ out_block' = Processed(Len(sent) + 1)
    /\ output_queue' = put_nowait(output_queue, out_block')
    /\ sent' = Append(sent, out_block')
    /\ UNCHANGED <<ap_vars, ext_vars, input_queue, io_stream, running, io_hw, cb_pc,
                   indata, outdata, captured, cb_event, pc, in_block, interrupted_at,
                   buffer_len, prev_tail, got, emitted, started_at>>

NextLayer ==
    \/ CallbackPut
    \/ CallbackGet
    \/ LayerStart
    \/ LayerStop
    \/ LayerGet
    \/ LayerSend

NextIO ==
    \/ CallbackPut
    \/ CallbackGet
    \/ MainStart
    \/ MainGet
    \/ MainCheck
    \/ MainAnalyze
    \/ MainSend
    \/ KeyboardInterrupt
    \/ MainFinally

-----------------------------------------------------------------------------
(* The backend: models.py.  Real-valued fields are held in hundredths.     *)

\* Optional[int] = None for a device
NoDevice == -1

\* AudioConfig(), the field defaults of models.py
DefaultConfig ==
    [input_device |-> NoDevice, output_device |-> NoDevice, buffer_size |-> 512,
     sample_rate |-> 48000, enabled |-> FALSE]

\* the configurations a client sends; device 7 does not exist
Configs ==
    [input_device : {NoDevice, 7}, output_device : {NoDevice, 1},
     buffer_size : {512, 256}, sample_rate : {48000, 44100}, enabled : BOOLEAN]

\* VoiceProfile(name=..., <field defaults>)
VoiceProfile(name) ==
    [name |-> name, pitch_shift |-> 0, formant_shift |-> 100, resonance |-> 0,
     brightness |-> 0, timbre_shift |-> 100, gender_strength |-> 5000,
     breath_noise |-> 0]

\* the built-in "Deep Voice" and "Male to Female" profiles
DeepVoice ==
    [name |-> "Deep Voice", pitch_shift |-> -800, formant_shift |-> 120,
     resonance |-> 4000, brightness |-> -300, timbre_shift |-> 115,
     gender_strength |-> 8000, breath_noise |-> 500]

MaleToFemale ==
    [name |-> "Male to Female", pitch_shift |-> 600, formant_shift |-> 85,
     resonance |-> 3000, brightness |-> 200, timbre_shift |-> 90,
     gender_strength |-> 7000, breath_noise |-> 1500]

\* the profiles a client applies
Profiles == {VoiceProfile("Default"), DeepVoice, MaleToFemale}

\* profiles with one parameter on the edge of the band its stage is guarded
\* by: formant_shift 1.01, resonance 1.0, brightness 0.1
BoundaryProfiles ==
    {[VoiceProfile("Edge") EXCEPT !.formant_shift = 101],
     [VoiceProfile("Edge") EXCEPT !.resonance = 100],
     [VoiceProfile("Edge") EXCEPT !.brightness = 10]}

(* Bounds of the model.                                                    *)

-----------------------------------------------------------------------------
(* AudioProcessor.__init__ and the idle event loop.                        *)

\* self.stream = None
NoStreamObj == [id |-> 0, device |-> <<NoDevice, NoDevice>>, samplerate |-> 0,
                blocksize |-> 0]

NoUse == [pitch |-> None, formant |-> None, resonance |-> None, brightness |-> None]

NoEntry == [config |-> DefaultConfig, stream |-> NoStreamObj, active |-> FALSE]

InitAP ==
    /\ config = DefaultConfig
    /\ sample_rate = 48000
    /\ profile = VoiceProfile("Default")
    /\ processing_enabled = FALSE
    /\ ap_stream = NoStreamObj
    /\ ap_hw = <<>>
    /\ acb_pc = "idle"
    /\ acb_enabled = FALSE
    /\ acb_used = NoUse
    /\ acb_done = NoUse
    /\ h_pc = "idle"
    /\ h_config = DefaultConfig
    /\ h_entry = NoEntry
    /\ h_log = <<>>
    /\ h_result = "none"

-----------------------------------------------------------------------------
(* AudioProcessor.stop and AudioProcessor.start, as functions of the part  *)
(* of the state they touch: s.stream, s.hw, s.processing_enabled, the log  *)
(* of sd.Stream calls s.log, and s.raised when the call raises.            *)

APState ==
    [stream |-> ap_stream, hw |-> ap_hw, processing_enabled |-> processing_enabled,
     log |-> h_log, raised |-> FALSE]

\* a stop that drops the reference without stopping the hardware stream
stop_forgets(s) ==
    [s EXCEPT !.processing_enabled = FALSE, !.stream = NoStreamObj]

\* audio_processor.py lines 314-322
stop(s) ==
    IF s.stream # NoStreamObj
      THEN [s EXCEPT !.processing_enabled = FALSE,
                     !.hw[s.stream.id] = "closed",
                     !.stream = NoStreamObj,
                     !.log = s.log \o <<"stop", "close">>]
      ELSE [s EXCEPT !.processing_enabled = FALSE]

\* sd.Stream(device=...) raises for a device index that does not exist
ValidDevice(d) == d \in {NoDevice, 0, 1}

\* audio_processor.py lines 289-312; cfg is self.config, driver_ok is whether
\* stream.start() succeeds
start(s, cfg, driver_ok) ==
    LET s1 == IF s.stream # NoStreamObj THEN stop(s) ELSE s
        s2 == [s1 EXCEPT !.processing_enabled = TRUE]
        obj == [id |-> Len(s2.hw) + 1,
                device |-> <<cfg.input_device, cfg.output_device>>,
                samplerate |-> cfg.sample_rate,
                blocksize |-> cfg.buffer_size]
    IN  IF ~(ValidDevice(cfg.input_device) /\ ValidDevice(cfg.output_device))
          THEN [s2 EXCEPT !.processing_enabled = FALSE,
                          !.raised = TRUE,
                          !.log = Append(s2.log, "open_failed")]
        ELSE IF ~driver_ok
          THEN [s2 EXCEPT !.stream = obj,
                          !.hw = Append(s2.hw, "stopped"),
                          !.processing_enabled = FALSE,
                          !.raised = TRUE,
                          !.log = s2.log \o <<"open", "start_failed">>]
        ELSE [s2 EXCEPT !.stream = obj,
                        !.hw = Append(s2.hw, "active"),
                        !.log = s2.log \o <<"open", "start">>]

\* the hardware stream behind a stream object is delivering callbacks
Active(obj, hw) == obj # NoStreamObj /\ hw[obj.id] = "active"

APActive == \E i \in 1..Len(ap_hw) : ap_hw[i] = "active"

\* stream.stop() returns once the callback in progress has returned
CanStop(s) == Active(s.stream, s.hw) => acb_pc = "idle"

\* the state after a call of stop or start
Becomes(s) ==
    /\ ap_stream' = s.stream
    /\ ap_hw' = s.hw
    /\ processing_enabled' = s.processing_enabled
    /\ h_log' = s.log

-----------------------------------------------------------------------------
(* AudioProcessor.update_config, called by POST /config and by the         *)
(* WebSocket message config_update, which run the same statements.         *)

\* a comparison that forgets the buffer size
needs_restart_devices_rate(old, new) ==
    \/ old.input_device # new.input_device
    \/ old.output_device # new.output_device
    \/ old.sample_rate # new.sample_rate

\* audio_processor.py lines 70-75
needs_restart(old, new) ==
    \/ old.input_device # new.input_device
    \/ old.output_device # new.output_device
    \/ old.buffer_size # new.buffer_size
    \/ old.sample_rate # new.sample_rate

\* main.py line 182 / 267 entering update_config; audio_processor.py lines 70-80
UpdateConfig(c) ==
    /\ h_pc = "idle"
    /\ Len(ap_hw) < MaxOpens
    /\ h_config' = c
    /\ h_entry' = [config |-> config, stream |-> ap_stream,
                   active |-> Active(ap_stream, ap_hw)]
    /\ h_log' = <<>>
    /\ h_result' = "none"
    /\ config' = c
    /\ sample_rate' = c.sample_rate
    /\ h_pc' = IF needs_restart(config, c) /\ ap_stream # NoStreamObj
                 THEN "restart_stop" ELSE "toggle"
    /\ UNCHANGED <<io_vars, ext_vars, profile, processing_enabled, ap_stream, ap_hw, acb_pc,
                   acb_enabled, acb_used, acb_done>>

\* audio_processor.py line 81: self.stop()
RestartStop ==
    /\ h_pc = "restart_stop"
    /\ CanStop(APState)
    /\ Becomes(stop(APState))
    /\ h_pc' = IF config.enabled THEN "restart_start" ELSE "toggle"
    /\ UNCHANGED <<io_vars, ext_vars, config, sample_rate, profile, acb_pc, acb_enabled,
                   acb_used, acb_done, h_config, h_entry, h_result>>

\* audio_processor.py lines 82-83: if config.enabled: self.start()
RestartStart ==
    /\ h_pc = "restart_start"
    /\ \E driver_ok \in BOOLEAN :
         LET s == start(APState, config, driver_ok) IN
           /\ Becomes(s)
           /\ h_pc' = IF s.raised THEN "reply" ELSE "toggle"
           /\ h_result' = IF s.raised THEN "error" ELSE h_result
    /\ UNCHANGED <<io_vars, ext_vars, config, sample_rate, profile, acb_pc, acb_enabled,
                   acb_used, acb_done, h_config, h_entry>>

\* main.py lines 185-188 / 269-272
Toggle ==
    /\ h_pc = "toggle"
    /\ IF h_config.enabled /\ ap_stream = NoStreamObj
         THEN \E driver_ok \in BOOLEAN :
                LET s == start(APState, config, driver_ok) IN
                  /\ Becomes(s)
                  /\ h_result' = IF s.raised THEN "error" ELSE "ok"
         ELSE IF ~h_config.enabled /\ ap_stream # NoStreamObj
           THEN /\ CanStop(APState)
                /\ Becomes(stop(APState))
                /\ h_result' = "ok"
         ELSE /\ h_result' = "ok"
              /\ UNCHANGED <<ap_stream, ap_hw, processing_enabled, h_log>>
    /\ h_pc' = "reply"
    /\ UNCHANGED <<io_vars, ext_vars, config, sample_rate, profile, acb_pc, acb_enabled,
                   acb_used, acb_done, h_config, h_entry>>

\* main.py lines 190-198: the reply is sent, the event loop is free again
Reply ==
    /\ h_pc = "reply"
    /\ h_pc' = "idle"
    /\ h_config' = DefaultConfig
    /\ h_entry' = NoEntry
    /\ h_log' = <<>>
    /\ h_result' = "none"
    /\ UNCHANGED <<io_vars, ext_vars, config, sample_rate, profile, processing_enabled,
                   ap_stream, ap_hw, acb_pc, acb_enabled, acb_used, acb_done>>

\* AudioProcessor.update_profile, called by POST /profile/apply and by the
\* WebSocket message profile_update
UpdateProfile(p) ==
    /\ h_pc = "idle"
    /\ profile' = p
    /\ UNCHANGED <<io_vars, ext_vars, config, sample_rate, processing_enabled, ap_stream, ap_hw,
                   acb_pc, acb_enabled, acb_used, acb_done, h_pc, h_config, h_entry,
                   h_log, h_result>>

-----------------------------------------------------------------------------
(* AudioProcessor._audio_callback and _process_audio, on the callback      *)
(* thread.  Every mention of self.profile is a read of its own.            *)

\* a guard that sends every block through every stage
Applies_always(stage, p) == TRUE

\* the guards of _process_audio, lines 221, 225, 229 and 233, on values in
\* hundredths.  They are evaluated in float64: abs(1.01 - 1.0) and
\* abs(0.99 - 1.0) are 0.010000000000000009, which is > 0.01, while
\* abs(0.01) > 0.01, 1.0 > 1.0 and abs(0.1) > 0.1 are false
Applies(stage, p) ==
    CASE stage = "pitch" -> (p.pitch_shift > 1 \/ p.pitch_shift < -1)
      [] stage = "formant" -> p.formant_shift # 100
      [] stage = "resonance" -> p.resonance > 100
      [] stage = "brightness" -> (p.brightness > 10 \/ p.brightness < -10)

NextStage(stage) ==
    CASE stage = "pitch" -> "formant"
      [] stage = "formant" -> "resonance"
      [] stage = "resonance" -> "brightness"
      [] stage = "brightness" -> "normalize"

Stages == {"pitch", "formant", "resonance", "brightness"}

\* lines 258-270: the callback is entered and reads processing_enabled
CallbackEnter ==
    /\ APActive
    /\ acb_pc = "idle"
    /\ acb_enabled' = processing_enabled
    /\ acb_used' = NoUse
    /\ acb_pc' = IF processing_enabled THEN "pitch" ELSE "emit"
    /\ UNCHANGED <<io_vars, ext_vars, config, sample_rate, profile, processing_enabled,
                   ap_stream, ap_hw, acb_done, h_pc, h_config, h_entry, h_log, h_result>>

\* lines 221, 225, 229, 233: if <guard on self.profile.x>: ...
StageGuard ==
    /\ acb_pc \in Stages
    /\ IF Applies(acb_pc, profile)
         THEN /\ acb_pc' = acb_pc \o "_call"
              /\ UNCHANGED acb_used
         ELSE /\ acb_pc' = NextStage(acb_pc)
              /\ acb_used' = [acb_used EXCEPT ![acb_pc] = profile.name]
    /\ UNCHANGED <<io_vars, ext_vars, config, sample_rate, profile, processing_enabled,
                   ap_stream, ap_hw, acb_enabled, acb_done, h_pc, h_config, h_entry,
                   h_log, h_result>>

\* lines 222, 226, 230, 234: audio = self._stage(audio, self.profile.x)
StageCall ==
    \E stage \in Stages :
      /\ acb_pc = stage \o "_call"
      /\ acb_used' = [acb_used EXCEPT ![stage] = profile.name]
      /\ acb_pc' = NextStage(stage)
      /\ UNCHANGED <<io_vars, ext_vars, config, sample_rate, profile, processing_enabled,
                     ap_stream, ap_hw, acb_enabled, acb_done, h_pc, h_config, h_entry,
                     h_log, h_result>>

\* lines 236-245: normalize, return to the callback
Normalize ==
    /\ acb_pc = "normalize"
    /\ acb_pc' = "emit"
    /\ UNCHANGED <<io_vars, ext_vars, config, sample_rate, profile, processing_enabled,
                   ap_stream, ap_hw, acb_enabled, acb_used, acb_done, h_pc, h_config,
                   h_entry, h_log, h_result>>

\* lines 274-283: outdata is written, the callback returns
CallbackEmit ==
    /\ acb_pc = "emit"
    /\ acb_done' = acb_used
    /\ acb_pc' = "idle"
    /\ UNCHANGED <<io_vars, ext_vars, config, sample_rate, profile, processing_enabled,
                   ap_stream, ap_hw, acb_enabled, acb_used, h_pc, h_config, h_entry,
                   h_log, h_result>>

-----------------------------------------------------------------------------
(* The ring modulator of src/src/processment.py, called once per chunk by  *)
(* main_loop of src/main.py.                                               *)

\* src/main.py
CHUNK == 1024
RATE == 44100

\* processment.py line 23, as an integer
frequency_mod == 30

\* the callers of process_chunk
Pipelines == {"A", "B"}

\* the chunk lengths a caller passes
ChunkSizes == {CHUNK, CHUNK \div 2}

\* calls of process_chunk before the model takes no more
MaxCalls == 5

\* a generator that starts every block at sample index 0
generator_restarting(frequency, rate, chunk_size) ==
    [wave |-> [start |-> 0, n |-> chunk_size, frequency |-> frequency,
               rate |-> rate],
     base_phase |-> base_phase + chunk_size]

\* processment.py lines 9-16.  The returned block is named by what
\* determines it: sample i is sin(2 pi frequency (i + start) / rate)
senoidal_wave_generator(frequency, rate, chunk_size) ==
    [wave |-> [start |-> base_phase, n |-> chunk_size, frequency |-> frequency,
               rate |-> rate],
     base_phase |-> base_phase + chunk_size]

\* np.arange(num_samples) + base_phase, at position i of a block
t_index(block, i) == i + block.start

\* the angle of sample i of a block, in units of 1/rate of a turn
Angle(block, i) == (block.frequency * t_index(block, i)) % block.rate

InitOsc ==
    /\ base_phase = 0
    /\ osc_wave = [who \in Pipelines |-> <<>>]
    /\ osc_all = <<>>

\* processment.py lines 19-45, for the carrier: pipeline who processes a
\* chunk of chunk_size samples
process_chunk(who, chunk_size) ==
    /\ Len(osc_all) < MaxCalls
    /\ LET g == senoidal_wave_generator(frequency_mod, RATE, chunk_size)
       IN  /\ base_phase' = g.base_phase
           /\ osc_wave' = [osc_wave EXCEPT ![who] = Append(@, g.wave)]
           /\ osc_all' = Append(osc_all, g.wave)
    /\ UNCHANGED <<io_vars, rl_vars, ap_vars, dsp_vars, req_last, store_vars>>

NextOsc == \E who \in Pipelines, n \in ChunkSizes : process_chunk(who, n)

-----------------------------------------------------------------------------
(* AudioProcessor._audio_callback and _process_audio on sample data.  The  *)
(* fields the callback reads are held fixed while it runs.                 *)
(*                                                                         *)
(* A block is [frames, num, den]: frames samples, of which the first       *)
(* NumProbe are num[i] / den and the others are zero.                      *)

\* audio_processor.py line 27; self.window = np.hanning(self.window_size)
window_size == 2048

\* samples of a block that the model lets differ from zero
NumProbe == 2

\* sample values of an input block, in hundredths of full scale
SampleValues == {-120, 0, 95}

\* the blocks of a given length
Blocks(frames) ==
    {[frames |-> frames, num |-> s, den |-> 100] : s \in [1..NumProbe -> SampleValues]}

\* the buffer sizes of the streams the callback runs on
BufferSizes == {256, 512, window_size}

\* the output buffer before the callback has written it
Unwritten == [frames |-> 0, num |-> <<>>, den |-> 1]

Abs(x) == IF x < 0 THEN -x ELSE x

\* np.max(np.abs(audio)), as a numerator over audio.den
max_val(b) ==
    CHOOSE m \in {Abs(b.num[i]) : i \in DOMAIN b.num} \cup {0} :
        \A i \in DOMAIN b.num : Abs(b.num[i]) <= m

\* a normalization step that never scales
normalize_never(b) == b

\* audio_processor.py lines 236-239:
\* if max_val > 0.95: audio = audio * (0.95 / max_val)
normalize(b) ==
    IF 100 * max_val(b) > 95 * b.den
      THEN [b EXCEPT !.num = [i \in DOMAIN b.num |-> 95 * b.num[i]],
                     !.den = 100 * max_val(b)]
      ELSE b

\* int(self.sample_rate * 0.01), line 166
delay_samples == sample_rate \div 100

\* audio * self.window (line 137) raises ValueError unless both have the
\* same length; no other stage raises on a block of one sample or more
Faults(stage, b) == stage = "formant" /\ b.frames # window_size

\* a stage that is called changes the block, except that _apply_resonance
\* adds the delayed copy only if len(audio) > delay_samples (line 168)
Transforms(stage, b) == stage = "resonance" => b.frames > delay_samples

\* what a stage that is called may return: every stage keeps the length of
\* the block; _apply_resonance leaves a block no longer than the delay alone
Results(stage, b) ==
    IF Transforms(stage, b) THEN Blocks(b.frames) ELSE {b}

\* an except clause that plays the input
on_exception_passthrough(input) == input

\* lines 285-287: outdata.fill(0)
on_exception(input) ==
    [frames |-> input.frames, num |-> [i \in DOMAIN input.num |-> 0], den |-> 100]

InitDsp ==
    /\ dsp_pc = "idle"
    /\ audio_input = Unwritten
    /\ audio = Unwritten
    /\ audio_output = Unwritten
    /\ dsp_fault = FALSE
    /\ dsp_applied = <<>>

\* lines 258-270: the callback of the running stream is entered with the
\* mono mix b of indata
DspEnter(b) ==
    /\ dsp_pc = "idle"
    /\ Active(ap_stream, ap_hw)
    /\ b.frames = ap_stream.blocksize
    /\ audio_input' = b
    /\ audio' = b
    /\ audio_output' = Unwritten
    /\ dsp_fault' = FALSE
    /\ dsp_applied' = <<>>
    /\ dsp_pc' = IF processing_enabled THEN "pitch" ELSE "emit"
    /\ UNCHANGED <<io_vars, rl_vars, ap_vars, osc_vars, req_last, store_vars>>

\* lines 221-234: one guarded stage of _process_audio
DspStage ==
    /\ dsp_pc \in Stages
    /\ IF ~Applies(dsp_pc, profile)
         THEN /\ dsp_pc' = NextStage(dsp_pc)
              /\ UNCHANGED <<audio, dsp_fault, dsp_applied>>
       ELSE IF Faults(dsp_pc, audio)
         THEN /\ dsp_pc' = "except"
              /\ dsp_fault' = TRUE
              /\ UNCHANGED <<audio, dsp_applied>>
       ELSE /\ audio' \in Results(dsp_pc, audio)
            /\ dsp_applied' = IF Transforms(dsp_pc, audio)
                                THEN Append(dsp_applied, dsp_pc)
                                ELSE dsp_applied
            /\ dsp_pc' = NextStage(dsp_pc)
            /\ UNCHANGED dsp_fault
    /\ UNCHANGED <<io_vars, rl_vars, ap_vars, osc_vars, req_last, store_vars, audio_input,
                   audio_output>>

\* lines 236-245
DspNormalize ==
    /\ dsp_pc = "normalize"
    /\ audio' = normalize(audio)
    /\ dsp_pc' = "emit"
    /\ UNCHANGED <<io_vars, rl_vars, ap_vars, osc_vars, req_last, store_vars, audio_input,
                   audio_output, dsp_fault, dsp_applied>>

\* lines 272-276: outdata[:] = audio_output[:, np.newaxis]
DspEmit ==
    /\ dsp_pc = "emit"
    /\ audio_output' = audio
    /\ dsp_pc' = "idle"
    /\ UNCHANGED <<io_vars, rl_vars, ap_vars, osc_vars, req_last, store_vars, audio_input,
                   audio, dsp_fault, dsp_applied>>

\* lines 285-287
DspExcept ==
    /\ dsp_pc = "except"
    /\ audio_output' = on_exception(audio_input)
    /\ dsp_pc' = "idle"
    /\ UNCHANGED <<io_vars, rl_vars, ap_vars, osc_vars, req_last, store_vars, audio_input,
                   audio, dsp_fault, dsp_applied>>

NextCallback ==
    \/ \E b \in UNION {Blocks(n) : n \in BufferSizes} : DspEnter(b)
    \/ DspStage
    \/ DspNormalize
    \/ DspEmit
    \/ DspExcept

-----------------------------------------------------------------------------
(* POST /profile/apply and the WebSocket message profile_update: the body  *)
(* is validated by the pydantic model VoiceProfile before update_profile   *)
(* is called.  Field values are in hundredths, as in VoiceProfile above.   *)

\* the numeric fields of models.VoiceProfile
Fields == {"pitch_shift", "formant_shift", "resonance", "brightness", "timbre_shift",
           "gender_strength", "breath_noise"}

\* models.py lines 20-26: Field(ge=..., le=...)
FieldRange ==
    [pitch_shift |-> <<-1200, 1200>>, formant_shift |-> <<60, 140>>,
     resonance |-> <<0, 10000>>, brightness |-> <<-1000, 1000>>,
     timbre_shift |-> <<50, 200>>, gender_strength |-> <<0, 10000>>,
     breath_noise |-> <<0, 10000>>]

InRange(p) ==
    \A f \in Fields : FieldRange[f][1] <= p[f] /\ p[f] <= FieldRange[f][2]

\* the value of a range nearest to x
Clamp(f, x) ==
    IF x < FieldRange[f][1] THEN FieldRange[f][1]
    ELSE IF x > FieldRange[f][2] THEN FieldRange[f][2]
    ELSE x

Clamped(raw) ==
    [f \in DOMAIN raw |-> IF f \in Fields THEN Clamp(f, raw[f]) ELSE raw[f]]

\* a model that clamps what it is given
Validate_clamping(raw) == [ok |-> TRUE, value |-> Clamped(raw)]

\* VoiceProfile(**data): pydantic raises ValidationError when a ge / le
\* constraint fails, and keeps the values as given otherwise
Validate(raw) == [ok |-> InRange(raw), value |-> raw]

\* a bound of the range of field f, and one hundredth beyond it
Probe(f) ==
    {FieldRange[f][1] - 1, FieldRange[f][1], FieldRange[f][2], FieldRange[f][2] + 1}

\* the bodies clients send: the default profile with one field at or beyond
\* a bound, and one with every field too large
RawProfiles ==
    UNION {{[VoiceProfile("Custom") EXCEPT ![f] = x] : x \in Probe(f)} : f \in Fields}
    \cup {[f \in DOMAIN VoiceProfile("Custom") |->
             IF f \in Fields THEN FieldRange[f][2] + 1 ELSE "Custom"]}

NoRequest == [via |-> "none", raw |-> VoiceProfile("Default"), status |-> "none"]

InitReq == req_last = NoRequest

\* main.py lines 201-222 (via = "rest": FastAPI answers 422 without calling
\* the handler when the body does not validate) and lines 274-276 with
\* 288-292 (via = "ws": the ValidationError ends the connection)
ApplyProfile(via, raw) ==
    /\ h_pc = "idle"
    /\ LET v == Validate(raw)
       IN  IF v.ok
             THEN /\ profile' = v.value
                  /\ req_last' = [via |-> via, raw |-> raw, status |-> "applied"]
             ELSE /\ UNCHANGED profile
                  /\ req_last' = [via |-> via, raw |-> raw,
                                  status |-> IF via = "rest" THEN "422" ELSE "ws_closed"]
    /\ UNCHANGED <<io_vars, rl_vars, osc_vars, dsp_vars, store_vars, config, sample_rate,
                   processing_enabled, ap_stream, ap_hw, acb_pc, acb_enabled, acb_used,
                   acb_done, h_pc, h_config, h_entry, h_log, h_result>>

NextApply == \E via \in {"rest", "ws"}, raw \in RawProfiles : ApplyProfile(via, raw)

-----------------------------------------------------------------------------
(* ProfileManager (src/backend/voice_profiles.py), the store behind the    *)
(* /profiles handlers of src/backend/main.py.  A file is [dir, file, data]: *)
(* dir is "" for profiles_dir itself and "default" for its subdirectory,   *)
(* file is the file name as a sequence of characters, data the profile     *)
(* written to it.                                                          *)

\* the characters of the strings the model uses
Chars(str) ==
    CASE str = "Male to Female" -> <<"M", "a", "l", "e", " ", "t", "o", " ", "F", "e", "m", "a", "l", "e">>
      [] str = "Female to Male" -> <<"F", "e", "m", "a", "l", "e", " ", "t", "o", " ", "M", "a", "l", "e">>
      [] str = "Neutral Robot" -> <<"N", "e", "u", "t", "r", "a", "l", " ", "R", "o", "b", "o", "t">>
      [] str = "Deep Voice" -> <<"D", "e", "e", "p", " ", "V", "o", "i", "c", "e">>
      [] str = "High Voice" -> <<"H", "i", "g", "h", " ", "V", "o", "i", "c", "e">>
      [] str = "My Voice" -> <<"M", "y", " ", "V", "o", "i", "c", "e">>
      [] str = "my_voice" -> <<"m", "y", "_", "v", "o", "i", "c", "e">>
      [] str = "My Default" -> <<"M", "y", " ", "D", "e", "f", "a", "u", "l", "t">>
      [] str = "profiles" -> <<"p", "r", "o", "f", "i", "l", "e", "s">>
      [] str = "default" -> <<"d", "e", "f", "a", "u", "l", "t">>
      [] str = ".json" -> <<".", "j", "s", "o", "n">>
      [] str = "/" -> <<"/">>

\* str.lower(), character by character
lower(c) ==
    CASE c = "D" -> "d" [] c = "F" -> "f" [] c = "H" -> "h" [] c = "M" -> "m"
      [] c = "N" -> "n" [] c = "R" -> "r" [] c = "V" -> "v" [] OTHER -> c

RECURSIVE replace(_, _, _)
\* str.replace(old, new) for a one-character old
replace(cs, old, new) ==
    IF cs = <<>> THEN <<>>
    ELSE (IF Head(cs) = old THEN new ELSE <<Head(cs)>>) \o replace(Tail(cs), old, new)

\* voice_profiles.py lines 96-105
_sanitize_filename(name) ==
    replace(replace([i \in DOMAIN Chars(name) |-> lower(Chars(name)[i])], " ", <<"_">>),
            "→", <<"t", "o">>)

\* f"{self._sanitize_filename(name)}.json"
filename(name) == _sanitize_filename(name) \o Chars(".json")

\* ProfileManager(): profiles_dir = "profiles" (main.py line 35)
profiles_dir == "profiles"

\* str(filepath)
PathStr(dir, file) ==
    Chars(profiles_dir) \o Chars("/")
      \o (IF dir = "" THEN <<>> ELSE Chars(dir) \o Chars("/")) \o file

\* sub in cs, for strings
Contains(cs, sub) ==
    \E i \in 0..(Len(cs) - Len(sub)) : SubSeq(cs, i + 1, i + Len(sub)) = sub

\* voice_profiles.py lines 31-88
FemaleToMale ==
    [name |-> "Female to Male", pitch_shift |-> -600, formant_shift |-> 115,
     resonance |-> 2500, brightness |-> -200, timbre_shift |-> 110,
     gender_strength |-> 7000, breath_noise |-> 1000]

NeutralRobot ==
    [name |-> "Neutral Robot", pitch_shift |-> 0, formant_shift |-> 100,
     resonance |-> 0, brightness |-> 0, timbre_shift |-> 100,
     gender_strength |-> 0, breath_noise |-> 0]

HighVoice ==
    [name |-> "High Voice", pitch_shift |-> 800, formant_shift |-> 80,
     resonance |-> 3500, brightness |-> 300, timbre_shift |-> 85,
     gender_strength |-> 8000, breath_noise |-> 2000]

\* line 91
BuiltIn == {MaleToFemale, FemaleToMale, NeutralRobot, DeepVoice, HighVoice}

\* the profiles clients save
UserProfiles ==
    {[VoiceProfile(n) EXCEPT !.pitch_shift = x] :
        n \in {"Deep Voice", "My Voice", "my_voice"}, x \in {300, -300}}
      \cup {[VoiceProfile("My Default") EXCEPT !.pitch_shift = 300]}

\* the names clients ask for
Names == {p.name : p \in BuiltIn \cup UserProfiles}

\* load_profile returning None
NoProfile == VoiceProfile("None")

\* lines 119-129, as a function of the files
save_profile(fs, p, subdirectory) ==
    {f \in fs : ~(f.dir = subdirectory /\ f.file = filename(p.name))}
      \cup {[dir |-> subdirectory, file |-> filename(p.name), data |-> p]}

\* lines 25-94, as a function of the files
_create_default_profiles(fs) ==
    fs \cup {[dir |-> "default", file |-> filename(p.name), data |-> p] :
                p \in {q \in BuiltIn :
                         ~\E f \in fs : f.dir = "default" /\ f.file = filename(q.name)}}

\* lines 146-153 and 205-212: the file a name stands for, in profiles_dir
\* first and then in its subdirectories
Lookup(fs, name) ==
    IF \E f \in fs : f.dir = "" /\ f.file = filename(name)
      THEN {f \in fs : f.dir = "" /\ f.file = filename(name)}
      ELSE {f \in fs : f.file = filename(name)}

\* lines 131-160
load_profile(fs, name) ==
    IF Lookup(fs, name) = {} THEN NoProfile
    ELSE (CHOOSE f \in Lookup(fs, name) : TRUE).data

\* lines 162-188: how many times the returned list holds each name
list_profiles(fs) ==
    [n \in {f.data.name : f \in fs} |-> Cardinality({f \in fs : f.data.name = n})]

\* lines 190-222
delete_profile(fs, name) ==
    IF Lookup(fs, name) = {} THEN [files |-> fs, ok |-> FALSE]
    ELSE LET f == CHOOSE g \in Lookup(fs, name) : TRUE
         IN  IF Contains(PathStr(f.dir, f.file), Chars("default"))
               THEN [files |-> fs, ok |-> FALSE]
               ELSE [files |-> fs \ {f}, ok |-> TRUE]

NoListing == [n \in {} |-> 0]

\* what a call returned
Returned(op, name, ok, p, listing) ==
    [op |-> op, name |-> name, ok |-> ok, profile |-> p, listing |-> listing]

\* main.py line 35 on an empty profiles directory
InitStore ==
    /\ files = _create_default_profiles({})
    /\ st_last = Returned("init", "", TRUE, NoProfile, NoListing)

\* the server is started again on the same directory
ProfileManagerInit ==
    /\ files' = _create_default_profiles(files)
    /\ st_last' = Returned("init", "", TRUE, NoProfile, NoListing)
    /\ UNCHANGED <<io_vars, rl_vars, ap_vars, osc_vars, dsp_vars, req_last>>

\* POST /profiles, main.py lines 120-138
SaveProfile(p) ==
    /\ files' = save_profile(files, p, "")
    /\ st_last' = Returned("save", p.name, TRUE, p, NoListing)
    /\ UNCHANGED <<io_vars, rl_vars, ap_vars, osc_vars, dsp_vars, req_last>>

\* GET /profiles/{profile_name}, main.py lines 104-117
GetProfile(name) ==
    /\ st_last' = Returned("load", name, load_profile(files, name) # NoProfile,
                           load_profile(files, name), NoListing)
    /\ UNCHANGED <<io_vars, rl_vars, ap_vars, osc_vars, dsp_vars, req_last, files>>

\* GET /profiles, main.py lines 90-101
ListProfiles ==
    /\ st_last' = Returned("list", "", TRUE, NoProfile, list_profiles(files))
    /\ UNCHANGED <<io_vars, rl_vars, ap_vars, osc_vars, dsp_vars, req_last, files>>

\* DELETE /profiles/{profile_name}, main.py lines 141-157
DeleteProfile(name) ==
    /\ files' = delete_profile(files, name).files
    /\ st_last' = Returned("delete", name, delete_profile(files, name).ok, NoProfile,
                           NoListing)
    /\ UNCHANGED <<io_vars, rl_vars, ap_vars, osc_vars, dsp_vars, req_last>>

NextStore ==
    \/ ProfileManagerInit
    \/ \E p \in UserProfiles : SaveProfile(p)
    \/ \E n \in Names : GetProfile(n)
    \/ ListProfiles
    \/ \E n \in Names : DeleteProfile(n)

-----------------------------------------------------------------------------
(* ResearchLayer (src/src/ResearchLayer.py) on sample data.  A sample is   *)
(* named by where it comes from: the i-th sample fed to the layer is i, a   *)
(* sample of pw.synthesize is [kind "synth"], a crossfaded sample is        *)
(* [kind "mix"] with its two sources and its two weights.  The layer is     *)
(* built with a sample rate of 1000 Hz, so that a frame of n ms has n       *)
(* samples.                                                                 *)

\* ResearchLayer(samplerate=...)
rl_samplerate == 1000

\* self.frame_period = 5.0 (ms), line 11
frame_period == 5

\* overlap=0.5, line 6, in percent
overlap == 50

\* ResearchLayer(frame_length_ms=...)
FrameLengthsMs == {4, 6, 8}

\* the lengths of the blocks passed to analyze_and_synthesize
BlockLengths == {3, 7, 12}

\* samples fed to the layer before the model takes no more calls
MaxFed == 24

\* np.zeros(...)[i]
Zero == [kind |-> "zero"]

\* synthesized[k] of the n-th analysis (k from 1)
Synth(n, k) == [kind |-> "synth", call |-> n, idx |-> k]

\* pw.harvest returns int(1000 * len(x) / fs / frame_period) + 1 frames and
\* pw.synthesize int(frames * frame_period * fs / 1000) samples (lines 31, 40)
SynthLength(n) ==
    LET period == (frame_period * rl_samplerate) \div 1000
    IN  ((n \div period) + 1) * period

\* a ramp that leaves out its end point
linspace_open(lo, hi, num) ==
    [i \in 1..num |-> [num |-> lo * num + (i - 1) * (hi - lo), den |-> num]]

\* np.linspace(lo, hi, num), lines 44-45, as fractions num / den
linspace(lo, hi, num) ==
    [i \in 1..num |->
        IF num = 1 THEN [num |-> lo, den |-> 1]
        ELSE [num |-> lo * (num - 1) + (i - 1) * (hi - lo), den |-> num - 1]]

Min(a, b) == IF a < b THEN a ELSE b

\* s[:n]
Take(s, n) == SubSeq(s, 1, Min(n, Len(s)))

\* s[n:]
Drop(s, n) == SubSeq(s, Min(n, Len(s)) + 1, Len(s))

\* s[-n:]
Last(s, n) == SubSeq(s, Len(s) - Min(n, Len(s)) + 1, Len(s))

\* an advance by a whole frame
advance_frame(buffer, obj) == Drop(buffer, obj.frame_length)

\* line 28: self.buffer = self.buffer[self.hop_length:]
advance(buffer, obj) == Drop(buffer, obj.hop_length)

\* line 24: frame * 0.9 + self.prev_tail[:len(frame)] * 0.1 under NumPy
\* broadcasting: a frame of shape (N,) gives N samples, a frame of shape
\* (N, 1) gives an N x N array
blend(frame, tail) ==
    IF Len(frame.shape) = 1
      THEN [shape |-> <<Len(frame.data)>>,
            data |-> [i \in 1..Len(frame.data) |->
                        [kind |-> "blend", raw |-> frame.data[i], tail |-> tail[i]]]]
      ELSE [shape |-> <<Len(frame.data), Len(tail)>>,
            data |-> [i \in 1..Len(frame.data) |->
                        [j \in 1..Len(tail) |->
                           [kind |-> "blend", raw |-> frame.data[i], tail |-> tail[j]]]]]

\* lines 43-51: blended, from synthesized of the n-th analysis and prev_tail
crossfade(n, obj) ==
    LET fade_len == (obj.frame_length * obj.overlap) \div 100
        fade_in == linspace(0, 1, fade_len)
        fade_out == linspace(1, 0, fade_len)
    IN  [k \in 1..SynthLength(obj.frame_length) |->
           IF k <= fade_len
             THEN [kind |-> "mix", new |-> Synth(n, k), prev |-> obj.prev_tail[k],
                   fade_in |-> fade_in[k], fade_out |-> fade_out[k]]
             ELSE Synth(n, k)]

\* lines 6-13: ResearchLayer(samplerate=rl_samplerate, frame_length_ms=ms)
ResearchLayer(ms) ==
    LET fl == (ms * rl_samplerate) \div 1000
    IN  [frame_length |-> fl,
         hop_length |-> (fl * (100 - overlap)) \div 100,
         overlap |-> overlap,
         buffer |-> <<>>,
         prev_tail |-> [i \in 1..fl |-> Zero]]

NoCall == [frame |-> [shape |-> <<0>>, data |-> <<>>], path |-> "none",
           blended |-> <<>>, out |-> [shape |-> <<0>>, data |-> <<>>]]

\* a layer of the default frame length, not yet used
InitRl ==
    /\ rl = ResearchLayer(8)
    /\ rl_call = NoCall
    /\ rl_frames = <<>>

\* a layer built with one of the frame lengths
InitRlAny ==
    /\ \E ms \in FrameLengthsMs : rl = ResearchLayer(ms)
    /\ rl_call = NoCall
    /\ rl_frames = <<>>

\* the samples fed so far
Fed == Len(rl.buffer) + rl.hop_length * Len(rl_frames)

\* the next block of n samples of the input, as an array of ndim dimensions
Frame(n, ndim) ==
    [shape |-> IF ndim = 1 THEN <<n>> ELSE <<n, 1>>,
     data |-> [i \in 1..n |-> Fed + i]]

\* lines 18-58
analyze_and_synthesize(frame) ==
    /\ Fed < MaxFed
    /\ LET buffer == rl.buffer \o frame.data
       IN  IF Len(buffer) < rl.frame_length
             THEN /\ rl' = [rl EXCEPT !.buffer = buffer]
                  /\ rl_call' = [frame |-> frame, path |-> "buffering",
                                 blended |-> <<>>,
                                 out |-> blend(frame, Take(rl.prev_tail, Len(frame.data)))]
                  /\ UNCHANGED rl_frames
             ELSE LET blended == crossfade(Len(rl_frames) + 1, rl)
                  IN  /\ rl' = [rl EXCEPT !.buffer = advance(buffer, rl),
                                          !.prev_tail = Last(blended, rl.frame_length)]
                      /\ rl_frames' = Append(rl_frames, Take(buffer, rl.frame_length))
                      /\ rl_call' = [frame |-> frame, path |-> "frame",
                                     blended |-> blended,
                                     out |-> [shape |-> <<Len(Take(blended, Len(frame.data)))>>,
                                              data |-> Take(blended, Len(frame.data))]]
    /\ UNCHANGED <<io_vars, ap_vars, osc_vars, dsp_vars, req_last, store_vars>>

NextResearch ==
    \E n \in BlockLengths, ndim \in {1, 2} : analyze_and_synthesize(Frame(n, ndim))

-----------------------------------------------------------------------------
vars == <<io_vars, ap_vars, ext_vars>>

InitExt == InitOsc /\ InitDsp /\ InitReq /\ InitStore /\ InitRl

Init == InitIO /\ InitAP /\ InitExt

SpecIO == Init /\ [][NextIO]_vars

\* the control plane reconfigures the processor while audio runs
NextConfig ==
    \/ \E c \in Configs : UpdateConfig(c)
    \/ RestartStop
    \/ RestartStart
    \/ Toggle
    \/ Reply
    \/ UpdateProfile(DeepVoice)
    \/ CallbackEnter
    \/ StageGuard
    \/ StageCall
    \/ Normalize
    \/ CallbackEmit

SpecConfig == Init /\ [][NextConfig]_vars

\* the control plane enables the default devices, then applies profiles
\* while audio runs
NextProfile ==
    \/ UpdateConfig([DefaultConfig EXCEPT !.enabled = TRUE])
    \/ Toggle
    \/ Reply
    \/ \E p \in Profiles : UpdateProfile(p)
    \/ CallbackEnter
    \/ StageGuard
    \/ StageCall
    \/ Normalize
    \/ CallbackEmit

SpecProfile == Init /\ [][NextProfile]_vars

\* The processing loop is a thread of its own: whenever it can take its next
\* step it does (the wait of get_input_block ends by itself after 0.5 s).
\* a client that starts and stops the layer as it likes
SpecLayer == Init /\ [][NextLayer]_vars

SpecIOFair == SpecIO /\ WF_vars(MainGet) /\ WF_vars(MainCheck)

\* two callers of process_chunk in one process
SpecOsc == Init /\ [][NextOsc]_vars

\* the configurations of the streams the callback is observed on
RunConfigs ==
    [input_device : {NoDevice}, output_device : {NoDevice}, buffer_size : BufferSizes,
     sample_rate : {48000, 44100}, enabled : {TRUE}]

\* the processor after update_config(cfg) with start() and update_profile(p);
\* processing_enabled is False between lines 316 and 318 of stop()
InitRunning ==
    \E cfg \in RunConfigs, p \in Profiles \cup BuiltIn \cup BoundaryProfiles, en \in BOOLEAN :
        LET s == start([stream |-> NoStreamObj, hw |-> <<>>,
                        processing_enabled |-> FALSE, log |-> <<>>, raised |-> FALSE],
                       cfg, TRUE)
        IN  /\ config = cfg
            /\ sample_rate = cfg.sample_rate
            /\ profile = p
            /\ processing_enabled = en
            /\ ap_stream = s.stream
            /\ ap_hw = s.hw
            /\ acb_pc = "idle"
            /\ acb_enabled = FALSE
            /\ acb_used = NoUse
            /\ acb_done = NoUse
            /\ h_pc = "idle"
            /\ h_config = cfg
            /\ h_entry = NoEntry
            /\ h_log = <<>>
            /\ h_result = "none"

\* callbacks of a running stream, on sample data
InitCallback == InitIO /\ InitRunning /\ InitExt

SpecCallback == InitCallback /\ [][NextCallback]_vars

\* clients apply profiles
SpecApply == Init /\ [][NextApply]_vars

\* clients save, read, list and delete profiles
SpecStore == Init /\ [][NextStore]_vars

\* a ResearchLayer of any of the frame lengths, fed block after block
InitResearch == InitIO /\ InitAP /\ InitOsc /\ InitDsp /\ InitReq /\ InitStore /\ InitRlAny

SpecResearch == InitResearch /\ [][NextResearch]_vars

-----------------------------------------------------------------------------
(* Claims about the backend.                                               *)

\* the block about to be emitted went through _process_audio
BlockProcessed == acb_pc = "emit" /\ acb_enabled

\* C4 (as stated): every block is transformed with all four parameters
\* taken from one and the same profile, whatever update_profile does
\* meanwhile.
C4_OneSnapshot ==
    BlockProcessed =>
        /\ acb_used.pitch = acb_used.formant
        /\ acb_used.formant = acb_used.resonance
        /\ acb_used.resonance = acb_used.brightness

\* the request in hand is answered; what it found and what it did
Answered == h_pc = "reply"
StreamFields(c) == <<c.input_device, c.output_device, c.buffer_size, c.sample_rate>>
Differs == StreamFields(h_entry.config) # StreamFields(h_config)
HadStream == h_entry.stream # NoStreamObj
InLog(x) == \E i \in 1..Len(h_log) : h_log[i] = x

\* C5: update_config with a changed buffer size, on a running stream and
\* with enabled staying true, stops the stream exactly once and then opens
\* and starts a stream exactly once (when the driver refuses, that one
\* attempt fails and the call raises); between the stop and the start no
\* callback is running and none can be invoked.
C5_Case ==
    /\ Answered
    /\ h_entry.active
    /\ h_entry.config.enabled
    /\ h_config.enabled
    /\ h_entry.config.buffer_size # h_config.buffer_size

C6_Rebuild ==
    Answered =>
        /\ (InLog("stop") /\ (InLog("open") \/ InLog("open_failed")))
              <=> (Differs /\ HadStream /\ h_config.enabled)
        /\ (InLog("stop") /\ ~h_config.enabled) => h_log = <<"stop", "close">>
        /\ ~Differs =>
              IF h_config.enabled /\ ~HadStream
                THEN ~InLog("stop") /\ (InLog("open") \/ InLog("open_failed"))
              ELSE IF ~h_config.enabled /\ HadStream
                THEN h_log = <<"stop", "close">>
              ELSE /\ h_log = <<>>
                   /\ ap_stream = h_entry.stream
                   /\ Active(ap_stream, ap_hw) = h_entry.active
        /\ h_result = "ok" =>
              /\ config = h_config
              /\ (ap_stream # NoStreamObj) <=> h_config.enabled
              /\ ap_stream # NoStreamObj =>
                    /\ ap_hw[ap_stream.id] # "closed"
                    /\ ap_stream.device = <<config.input_device, config.output_device>>
                    /\ ap_stream.blocksize = config.buffer_size
                    /\ ap_stream.samplerate = config.sample_rate

\* a request that changed only the sample rate has rebuilt a running stream
C6_Witness ==
    /\ Answered
    /\ h_result = "ok"
    /\ h_entry.active
    /\ h_entry.config.sample_rate # h_config.sample_rate
    /\ h_entry.config.buffer_size = h_config.buffer_size
    /\ h_entry.config.input_device = h_config.input_device
    /\ h_entry.config.output_device = h_config.output_device
    /\ h_log = <<"stop", "close", "open", "start">>
    /\ ap_stream.samplerate = h_config.sample_rate

\* C7 (as stated): when start raises, processing_enabled is false and the
\* processor holds no stream object.
C7_FailedStartLeavesNothing ==
    (Answered /\ h_result = "error") =>
        (processing_enabled = FALSE /\ ap_stream = NoStreamObj)

\* C8 (as stated): when a request fails while a stream is running because
\* the devices it names cannot be opened, the stream that was running is
\* still held and running and the config is the one that was active before
\* the request.
C8_FailureKeepsOldStream ==
    (Answered /\ h_result = "error" /\ h_entry.active /\ InLog("open_failed")) =>
        /\ ap_stream = h_entry.stream
        /\ Active(ap_stream, ap_hw)
        /\ config = h_entry.config

-----------------------------------------------------------------------------
(* Claims about the I/O bridge.                                            *)

\* the callback captures a block while the input queue is at capacity
CaptureWhenFull == captured' = captured + 1 /\ Full(input_queue)

\* C1 (as stated): when the callback delivers a block while the input queue is
\* at capacity, the oldest pending block is removed and the new block is
\* enqueued, and the callback goes on to its output half.
C1_DropOldest ==
    [][CaptureWhenFull =>
          /\ input_queue' = Append(Tail(input_queue), indata')
          /\ cb_pc' = "output"]_vars

\* C1 (amended): when the callback delivers a block while the input queue is
\* at capacity, the oldest pending block stays at the head of the queue, the
\* queue stays at capacity and the new block is not in it; the callback
\* neither blocks nor raises (it goes on to its output half).
C1_KeepOldest ==
    [][CaptureWhenFull =>
          /\ Head(input_queue') = Head(input_queue)
          /\ Len(input_queue') = maxsize
          /\ \A i \in 1..Len(input_queue') : input_queue'[i] # indata'
          /\ cb_pc' = "output"]_vars

\* a capture found the input queue full, and the oldest capture is still queued
C1_Witness ==
    /\ cb_event = "input_full"
    /\ cb_pc = "output"
    /\ Len(input_queue) = maxsize
    /\ Head(input_queue).id < indata.id

\* C2: when the callback delivers a block while the input queue is at
\* capacity, the new block is discarded: contents and order of the input
\* queue are unchanged by that callback and no error is raised.
C2_DropNewest ==
    [][CaptureWhenFull => (input_queue' = input_queue /\ cb_pc' = "output")]_vars

\* the callback has just discarded capture maxsize + 1 or a later one
C2_Witness ==
    /\ cb_event = "input_full"
    /\ indata.id > maxsize
    /\ \A i \in 1..Len(input_queue) : input_queue[i].id < indata.id

C9_NoInterruptMidBlock ==
    [][pc = "analyze" => pc' \in {"analyze", "send"}]_vars

\* C10: a wait that finds no block returns None, changes nothing on the
\* processing side and leads back to the wait; and under SpecIOFair every
\* wait returns, with or without a block.
C10_NoInput == pc = "check" /\ in_block = NoBlock

C10_BoundedWait ==
    /\ [][(pc = "get" /\ pc' # "get" /\ input_queue = <<>>) =>
             (pc' = "finally" \/ (C10_NoInput' /\ UNCHANGED <<output_queue, out_block,
                                                              buffer_len, prev_tail>>))]_vars
    /\ [][(C10_NoInput /\ pc' # pc) =>
             (pc' \in {"get", "finally"} /\ UNCHANGED <<output_queue, out_block,
                                                       buffer_len, prev_tail>>)]_vars
    /\ (pc = "get") ~> (pc # "get")
    /\ C10_NoInput ~> (pc \in {"get", "finally"})

\* the wait timed out while the stream was running and blocks had already
\* been processed: the driver has stalled
C10_Witness ==
    /\ C10_NoInput
    /\ IOActive
    /\ captured > 0
    /\ out_block # NoBlock

-----------------------------------------------------------------------------
(* Claims about _process_audio and the audio callback on sample data.      *)

\* the callback has returned after writing its output block
Emitted == dsp_pc = "idle" /\ audio_output # Unwritten

\* the profile sends a block through no stage
Identity(p) ==
    p.pitch_shift = 0 /\ p.formant_shift = 100 /\ p.resonance = 0 /\ p.brightness = 0

\* both blocks hold the same samples
SameBlock(a, b) ==
    /\ a.frames = b.frames
    /\ \A i \in DOMAIN a.num : a.num[i] * b.den = b.num[i] * a.den

\* the peak of the block is at most 0.95 / exactly 0.95
PeakAtMost095(b) == 100 * max_val(b) <= 95 * b.den
PeakIs095(b) == 100 * max_val(b) = 95 * b.den

\* out is b with every sample multiplied by 0.95 / peak(b)
ScaledToPeak(out, b) ==
    /\ out.frames = b.frames
    /\ out.den > 0
    /\ \A i \in DOMAIN b.num : out.num[i] * 100 * max_val(b) = 95 * b.num[i] * out.den

\* C11: with a profile of pitch_shift 0, formant_shift 1.0, resonance 0 and
\* brightness 0, the block the callback emits is the input block when the
\* input peak is at most 0.95, and the input scaled by 0.95 / peak otherwise.
C11_Identity ==
    (Emitted /\ processing_enabled /\ Identity(profile)) =>
        IF PeakAtMost095(audio_input)
          THEN SameBlock(audio_output, audio_input)
          ELSE ScaledToPeak(audio_output, audio_input)

C11_Witness ==
    /\ Emitted
    /\ processing_enabled
    /\ Identity(profile)
    /\ ~PeakAtMost095(audio_input)
    /\ ~SameBlock(audio_output, audio_input)

\* C12: the block _process_audio returns has a peak of at most 0.95; the
\* normalization step leaves a block with a peak of at most 0.95 (an all-zero
\* block too) as it is, and scales any other block as a whole to a peak of
\* exactly 0.95, dividing by a peak that is not zero.
C12_PeakBounded ==
    /\ []((dsp_pc = "emit" /\ processing_enabled) => PeakAtMost095(audio))
    /\ [][dsp_pc = "normalize" =>
            IF PeakAtMost095(audio)
              THEN audio' = audio
              ELSE /\ max_val(audio) > 0
                   /\ ScaledToPeak(audio', audio)
                   /\ PeakIs095(audio')]_vars

C12_Witness ==
    /\ dsp_pc = "emit"
    /\ processing_enabled
    /\ Applies("pitch", profile)
    /\ audio.den # 100
    /\ PeakIs095(audio)

\* C18 as stated: after a fault in a stage the callback emits the input block
\* untransformed and the stream keeps running.
C18_FaultPassesInput ==
    (Emitted /\ dsp_fault) =>
        (SameBlock(audio_output, audio_input) /\ Active(ap_stream, ap_hw))

\* every sample of the block is zero
Silence(b) == \A i \in DOMAIN b.num : b.num[i] = 0

\* C18, amended: after a fault in a stage the callback returns normally with
\* the whole output block filled with zeros, whatever the input was, and the
\* stream keeps running.
C18_FaultEmitsSilence ==
    /\ []((Emitted /\ dsp_fault) =>
            /\ audio_output.frames = audio_input.frames
            /\ Silence(audio_output)
            /\ Active(ap_stream, ap_hw))
    /\ [][dsp_pc = "except" => (dsp_pc' = "idle" /\ audio_output' # Unwritten)]_vars

C18_Witness ==
    /\ Emitted
    /\ dsp_fault
    /\ ~Silence(audio_input)
    /\ Silence(audio_output)

\* C20: with Deep Voice applied on a stream at 48 kHz with a buffer of 512
\* samples, a callback passes all four stages without a fault and emits a
\* block of the length of the input with a peak of at most 0.95.
C20_DeepVoiceEndToEnd ==
    (Emitted /\ processing_enabled /\ profile = DeepVoice
       /\ ap_stream.samplerate = 48000 /\ ap_stream.blocksize = 512) =>
        /\ ~dsp_fault
        /\ audio_output.frames = audio_input.frames
        /\ PeakAtMost095(audio_output)

-----------------------------------------------------------------------------
(* Claims about the ring modulator.                                        *)

RECURSIVE Total(_)
\* the number of samples of a sequence of carrier blocks
Total(blocks) ==
    IF blocks = <<>> THEN 0
    ELSE blocks[Len(blocks)].n + Total(SubSeq(blocks, 1, Len(blocks) - 1))

\* every block of the sequence starts where the blocks before it end, so
\* that the sequence is one generation from sample index 0
Continuous(blocks) ==
    \A k \in 1..Len(blocks) :
        LET before == Total(SubSeq(blocks, 1, k - 1))
        IN  \A i \in 0..(blocks[k].n - 1) :
                /\ t_index(blocks[k], i) = before + i
                /\ Angle(blocks[k], i) = (frequency_mod * (before + i)) % RATE

\* C13: over consecutive calls with block sizes b1..bN, sample i of block k
\* is generated at sample index b1 + ... + b(k-1) + i: the blocks together
\* are one continuous generation of b1 + ... + bN samples.
C13_PhaseContinuous == Continuous(osc_all) /\ base_phase = Total(osc_all)

C13_Witness ==
    /\ Len(osc_all) >= 3
    /\ osc_all[1].n # osc_all[2].n
    /\ osc_all[3].start = osc_all[1].n + osc_all[2].n

\* C14: the carrier blocks each pipeline is given are those it would be
\* given if it ran alone, whatever the other pipeline calls in between.
C14_PhasePerInstance == \A who \in Pipelines : Continuous(osc_wave[who])

-----------------------------------------------------------------------------
(* Claims about profile requests.                                          *)

\* C15 as stated: every profile request is accepted, with each field clamped
\* to its range, and the profile held is within range.
C15_Clamped ==
    /\ req_last.status # "none" =>
          (req_last.status = "applied" /\ profile = Clamped(req_last.raw))
    /\ InRange(profile)

\* C15, amended: a request with a field outside its range is rejected (422
\* on POST /profile/apply, the connection closed on the WebSocket) and leaves
\* the profile held as it was; a request within range, bounds included, is
\* applied as given; the profile held is within range.
C15_Rejected ==
    /\ [](/\ req_last.status # "none" =>
               IF InRange(req_last.raw)
                 THEN req_last.status = "applied" /\ profile = req_last.raw
                 ELSE req_last.status = (IF req_last.via = "rest" THEN "422"
                                                                  ELSE "ws_closed")
          /\ InRange(profile))
    /\ [][req_last'.status \in {"422", "ws_closed"} => profile' = profile]_vars

C15_Witness ==
    /\ req_last.status = "422"
    /\ req_last.raw.pitch_shift = 1201
    /\ profile.name = "Custom"
    /\ profile.pitch_shift = 1200

-----------------------------------------------------------------------------
(* Claims about the profile store.                                         *)

\* C16: every built-in profile exists and loads with its seeded values, and
\* a delete of a built-in name fails and removes nothing.
C16_BuiltInsProtected ==
    /\ [](\A b \in BuiltIn : load_profile(files, b.name) = b)
    /\ []((st_last.op = "delete" /\ st_last.name \in {b.name : b \in BuiltIn})
            => ~st_last.ok)
    /\ [][(st_last'.op = "delete" /\ st_last'.name \in {b.name : b \in BuiltIn})
            => files' = files]_vars

\* C17: the list of the store never holds a name twice, and saving a
\* profile leaves every profile saved under another name retrievable with
\* its own values.
C17_NamesUnique ==
    /\ [](\A n \in DOMAIN list_profiles(files) : list_profiles(files)[n] = 1)
    /\ [][\A n \in Names :
            (st_last'.op = "save" /\ st_last'.name # n /\ files' # files
               /\ load_profile(files, n).name = n)
              => load_profile(files', n) = load_profile(files, n)]_vars

-----------------------------------------------------------------------------
(* Claims about the processor's buffers across a restart.                  *)

\* C19: after update_config has restarted the stream, the window is as long
\* as the block of the new stream and the sample rate is that of the new
\* stream.
C19_ResetOnRestart ==
    (Answered /\ h_result = "ok" /\ h_entry.active /\ Differs /\ InLog("start")) =>
        /\ window_size = ap_stream.blocksize
        /\ sample_rate = ap_stream.samplerate

-----------------------------------------------------------------------------
(* Claims about ResearchLayer.                                             *)

\* int(self.frame_length * self.overlap)
FadeLen == (rl.frame_length * rl.overlap) \div 100

\* the last call analysed a frame and crossfaded over two samples or more
Crossfaded == rl_call.path = "frame" /\ FadeLen >= 2

\* the weights of sample k of the overlap are both one half
Halves(k) ==
    /\ 2 * rl_call.blended[k].fade_in.num = rl_call.blended[k].fade_in.den
    /\ 2 * rl_call.blended[k].fade_out.num = rl_call.blended[k].fade_out.den

\* at every sample of the overlap the weights add up to 1 and the blended
\* sample is fade_in * synthesized + fade_out * prev_tail
WeightsSumToOne ==
    \A k \in 1..FadeLen :
        /\ rl_call.blended[k].kind = "mix"
        /\ rl_call.blended[k].fade_in.den = rl_call.blended[k].fade_out.den
        /\ rl_call.blended[k].fade_in.num + rl_call.blended[k].fade_out.num
             = rl_call.blended[k].fade_in.den
        /\ rl_call.blended[k].new = Synth(Len(rl_frames), k)

\* C21 as stated: over an overlap of two samples or more the weights add up
\* to 1 at every sample, and at the middle sample of the overlap the blended
\* sample is the average of its two sources.
C21_MidpointAverage ==
    Crossfaded => (WeightsSumToOne /\ Halves((FadeLen + 1) \div 2))

\* C21, amended: over an overlap of two samples or more the weights add up
\* to 1 at every sample and the blended sample is fade_in * synthesized +
\* fade_out * prev_tail; when the overlap has an odd number of samples the
\* middle one is the average of its two sources, and when it has an even
\* number no sample is: the weights there are k / (fade_len - 1), never 1/2.
C21_WeightsSumToOne ==
    /\ [](Crossfaded =>
            /\ WeightsSumToOne
            /\ (FadeLen % 2 = 1 => Halves((FadeLen + 1) \div 2))
            /\ (FadeLen % 2 = 0 => \A k \in 1..FadeLen : ~Halves(k)))
    /\ [][(rl_call'.path = "frame" /\ rl_call' # rl_call) =>
            \A k \in 1..FadeLen : rl_call'.blended[k].prev = rl.prev_tail[k]]_vars

C21_Witness ==
    /\ Crossfaded
    /\ FadeLen = 3
    /\ Len(rl_frames) >= 2
    /\ Halves(2)

\* the block returned holds, sample by sample, 0.9 * frame + 0.1 * prev_tail
SampleBySample(out, frame, tail) ==
    /\ out.shape = <<Len(frame.data)>>
    /\ \A i \in 1..Len(frame.data) :
          out.data[i] = [kind |-> "blend", raw |-> frame.data[i], tail |-> tail[i]]

\* C23: a call that leaves fewer than frame_length samples in the buffer
\* analyses no frame, appends the block to the buffer, leaves prev_tail as it
\* was and returns sample by sample 0.9 * frame + 0.1 * prev_tail; a frame is
\* analysed only when the buffer has reached frame_length samples.
C23_BufferingPath ==
    [][/\ (rl' # rl /\ Len(rl.buffer) + Len(rl_call'.frame.data) < rl.frame_length) =>
            /\ rl_frames' = rl_frames
            /\ rl'.buffer = rl.buffer \o rl_call'.frame.data
            /\ rl'.prev_tail = rl.prev_tail
            /\ SampleBySample(rl_call'.out, rl_call'.frame, rl.prev_tail)
       /\ rl_frames' # rl_frames =>
            Len(rl.buffer) + Len(rl_call'.frame.data) >= rl.frame_length]_vars

\* C24: the k-th frame analysed is frame_length consecutive samples of the
\* input starting hop_length * (k - 1) samples into it, with hop_length =
\* int(frame_length * (1 - overlap)); the buffer holds, in order, every
\* sample fed from hop_length * (number of frames analysed) on.
C24_HopAdvance ==
    /\ rl.hop_length = (rl.frame_length * (100 - rl.overlap)) \div 100
    /\ rl.hop_length <= rl.frame_length
    /\ \A k \in 1..Len(rl_frames) :
          rl_frames[k] = [i \in 1..rl.frame_length |-> rl.hop_length * (k - 1) + i]
    /\ rl.buffer = [i \in 1..Len(rl.buffer) |-> rl.hop_length * Len(rl_frames) + i]

C24_Witness ==
    /\ Len(rl_frames) >= 2
    /\ rl_call.path = "frame"
    /\ rl.buffer # <<>>
    /\ rl_frames[2][1] = rl.hop_length + 1

\* C25: every call returns a block as long as the block it was given.
C25_OutputLength ==
    rl_call.path # "none" => rl_call.out.shape[1] = Len(rl_call.frame.data)


\* ---------------------------------------------------------------------
\* Claims about the program's loop: buffer growth, block order
\* ---------------------------------------------------------------------

\* C27: with blocks of 3572 samples, frames of 3840 samples and an overlap
\* of 0.5, the accumulation buffer never holds more than one frame plus
\* one block of samples, however many blocks the loop has processed.
C27_BufferBounded == buffer_len <= frame_length + blocksize


\* ---------------------------------------------------------------------
\* Claims about the guards of the per-block chain
\* ---------------------------------------------------------------------

\* the order of the chain
Chain == <<"pitch", "formant", "resonance", "brightness">>

\* the stages the profile asks for when the bands are closed at their edge:
\* formant |m - 1| >= 0.01, resonance p >= 1, brightness |b| >= 0.1
InBand(stage, p) ==
    CASE stage = "pitch" -> Applies("pitch", p)
      [] stage = "formant" -> Abs(p.formant_shift - 100) >= 1
      [] stage = "resonance" -> p.resonance >= 100
      [] stage = "brightness" -> Abs(p.brightness) >= 10

\* C22: a block that has gone through the chain without an exception was
\* changed by exactly the stages whose parameter is on or outside the edge
\* of its band, in the order pitch, formant, resonance, brightness, for
\* every block size.
C22_BypassBands ==
    dsp_pc = "normalize" =>
        dsp_applied = SelectSeq(Chain, LAMBDA stage : InBand(stage, profile))


\* ---------------------------------------------------------------------
\* Claims about deleting saved profiles
\* ---------------------------------------------------------------------

\* the call that has just returned is delete_profile(name)
Deleting(name) ==
    /\ st_last'.op = "delete"
    /\ st_last'.name = name
    /\ <<files, st_last>> # <<files', st_last'>>

\* C30: deleting a profile that was saved with save_profile under a name
\* that is not a built-in name returns success and removes that profile's
\* file and no other, whatever the name is.
C30_SavedCanBeDeleted ==
    [][\A f \in files :
         (f.dir = "" /\ f.data.name \notin {p.name : p \in BuiltIn}
            /\ Deleting(f.data.name))
           => (st_last'.ok /\ files' = files \ {f})]_vars


\* a is b with some of its elements left out
RECURSIVE IsSubseq(_, _)
IsSubseq(a, b) ==
    IF a = <<>> THEN TRUE
    ELSE IF b = <<>> THEN FALSE
    ELSE IF Head(a) = Head(b) THEN IsSubseq(Tail(a), Tail(b))
    ELSE IsSubseq(a, Tail(b))

\* the blocks the driver has captured, in capture order
CapturedBlocks == [n \in 1..captured |-> CaptureBlock(n)]

\* C26: the blocks returned by get_input_block are a subsequence of the
\* captured blocks in capture order, the blocks the callback took from the
\* output queue and emitted are a subsequence of the blocks passed to
\* send_output_block, and neither queue ever holds more than maxsize blocks.
C26_FifoNoDuplicates ==
    /\ IsSubseq(got, CapturedBlocks)
    /\ IsSubseq(emitted, sent)
    /\ Len(input_queue) <= maxsize
    /\ Len(output_queue) <= maxsize

\* the loop has got a block captured after one that the full input queue
\* refused, and the callback has emitted two blocks
C26_Witness ==
    /\ Len(got) > maxsize
    /\ got[Len(got)].id > Len(got)
    /\ Len(emitted) >= 2


\* ---------------------------------------------------------------------
\* Claims about starting and stopping IOAudioLayer
\* ---------------------------------------------------------------------

\* every stream the layer opened, other than the one self.stream refers to,
\* has been stopped and closed
LayerStreamsClosed ==
    \A i \in 1..Len(io_hw) : i # io_stream => io_hw[i] = "closed"

\* the same for the processor, between two requests
ProcessorStreamsClosed ==
    h_pc = "idle" =>
        \A i \in 1..Len(ap_hw) : i # ap_stream.id => ap_hw[i] = "closed"

\* C28: whatever start, stop and update_config calls have been made, every
\* stream that was opened and is not the one currently referenced has been
\* stopped and closed, for the AudioProcessor and for the IOAudioLayer.
C28_OneStreamOpen == LayerStreamsClosed /\ ProcessorStreamsClosed

\* the layer runs again after a stop(): it has a stream, and every stream it
\* had before has been closed
Restarted == Len(io_hw) >= 2 /\ io_stream # NoStream /\ LayerStreamsClosed

\* C29: after stop() followed by start(), both queues are empty when the new
\* stream starts, every block get_input_block returns was captured after the
\* restart, and every block the callback takes from the output queue was
\* passed to send_output_block after the restart.
C29_NothingStaleAfterRestart ==
    /\ [](Restarted =>
            /\ \A i \in 1..Len(input_queue) : input_queue[i].id > started_at.captured
            /\ \A i \in 1..Len(output_queue) : output_queue[i].id > started_at.sent)
    /\ [][(Restarted' /\ got' # got) =>
            got'[Len(got')].id > started_at'.captured]_vars
    /\ [][(Restarted' /\ emitted' # emitted) =>
            emitted'[Len(emitted')].id > started_at'.sent]_vars

====
